---- MODULE Spec2Model ----
(***************************************************************************)
(* Model of 20detik.py: the ledger (VideoManager), the destination         *)
(* registry (FacebookPageManager), the fan-out (upload_to_all_pages) and   *)
(* the poll loop with its per-item pipeline (main).                        *)
(*                                                                         *)
(* One process runs main().  Every I/O call of the pipeline is one step of *)
(* the process (pc names the statement about to run), so that a kill of    *)
(* the process can fall between any two of them.  The channel's video      *)
(* pages and facebook_pages.json belong to the environment: the pages are  *)
(* fixed for a run, and each load_pages call reads whatever the file       *)
(* holds at that moment.                                                   *)
(***************************************************************************)
EXTENDS Integers, Sequences, FiniteSets, TLC

\* ------------------------------------------------------------------ bounds
\* Longest page list facebook_pages.json holds.
MaxPages == 2
\* Items one run of the model takes past the ledger check.
MaxItems == 2
\* Faults of the environment in one run of the model: the process is killed,
\* facebook_pages.json is found unusable by an upload, a write of
\* posted_videos.json fails, a statement of the while loop raises.
MaxFaults == 1

\* `details['duration'] <= 60`
ShortFormThreshold == 60
\* CHECK_INTERVAL, the seconds main sleeps after a cycle or an empty scrape.
CHECK_INTERVAL == 7200
\* `time.sleep(300)`, the seconds main sleeps after "Error in main loop".
RetrySleep == 300
\* UPLOAD_DELAY, the seconds upload_to_all_pages sleeps between two pages.
UPLOAD_DELAY == 30

\* Page URLs the feed can list, and media URLs a video page can embed.
Links == {"L1", "L2"}
Media == {"M1"}
\* What _extract_video_url can return for a page: any URL the page embeds,
\* the address of a page of the feed included.
URLs == Links \cup Media
Durations == {60, 61}

\* Python's None, for a URL, a path or a missing dictionary key.
None == "None"

\* ------------------------------------------------------- facebook_pages.json
\* A page entry; a key the entry lacks has the value None.
Page(id, token, name) == [page_id |-> id, access_token |-> token, page_name |-> name]
AllPages == <<Page("1", "t1", "A"), Page("2", "t2", "B"), Page("3", "t3", "C"),
              Page("4", "t4", "D")>>
required_fields == {"page_id", "access_token", "page_name"}

\* Complete lists of 0..MaxPages pages, the lists whose second entry lacks one
\* of the keys, and a list that holds the same entry twice.
PageLists == {SubSeq(AllPages, 1, k) : k \in 0..MaxPages}
               \cup {<<AllPages[1], [AllPages[2] EXCEPT ![f] = None]>> : f \in required_fields}
               \cup {<<AllPages[1], AllPages[1]>>}
\* The file: absent, a JSON value that is not a list, or a list of entries.
Configs == {[kind |-> "missing", pages |-> <<>>], [kind |-> "notlist", pages |-> <<>>]}
             \cup {[kind |-> "list", pages |-> ps] : ps \in PageLists}
\* No load_pages call to speak of.
NoConfig == [kind |-> "none", pages |-> <<>>]

\* FacebookPageManager.load_pages: raises (ok = FALSE) or returns the list.
\* The mutant leaves out the entries that lack a key.
load_pages_mut(cfg) ==
    IF cfg.kind # "list" THEN [ok |-> FALSE, pages |-> <<>>]
    ELSE [ok |-> TRUE,
          pages |-> SelectSeq(cfg.pages, LAMBDA p : \A f \in required_fields : p[f] # None)]
load_pages(cfg) ==
    IF cfg.kind = "missing" THEN [ok |-> FALSE, pages |-> <<>>]
    ELSE IF cfg.kind # "list" THEN [ok |-> FALSE, pages |-> <<>>]
    ELSE IF \E i \in 1..Len(cfg.pages) : \E f \in required_fields : cfg.pages[i][f] = None
         THEN [ok |-> FALSE, pages |-> <<>>]
    ELSE [ok |-> TRUE, pages |-> cfg.pages]

\* ------------------------------------------------------- posted_videos.json
MissingFile == [state |-> "missing", data |-> <<>>]
EmptyFile == [state |-> "empty", data |-> <<>>]
CorruptFile == [state |-> "corrupt", data |-> <<>>]

\* VideoManager.load_posted_videos
load_posted_videos(file) ==
    IF file.state = "missing" THEN <<>>
    ELSE IF file.state = "empty" THEN <<>>
    ELSE IF file.state = "corrupt" THEN <<>>
    ELSE file.data

\* What the file holds once json.dump wrote the list and the file was closed.
json_dump_mut(videos) == [state |-> "ok", data |-> SubSeq(videos, 1, Len(videos) - 1)]
json_dump(videos) == [state |-> "ok", data |-> videos]

\* VideoManager.is_video_posted
is_video_posted(videos, video_url) ==
    \E i \in 1..Len(videos) : videos[i].source_url = video_url

\* VideoManager.add_posted_video, the list it leaves in memory.
add_posted_video_mut(videos, video_details) == Append(videos, video_details)
add_posted_video(videos, video_details) ==
    IF ~is_video_posted(videos, video_details.source_url)
    THEN Append(videos, video_details)
    ELSE videos

\* ------------------------------------------------------------------ main
\* get_video_details returned None.
NoDetails == [source_url |-> None, duration |-> 0, posted_to |-> <<>>]
Details == [source_url : URLs, duration : Durations, posted_to : {<<>>}]
\* The video pages of a feed as the site serves them: for each page the
\* dictionary get_video_details makes of it, with a media URL or the page's
\* own address as 'source_url'.
PageContents(links) ==
    {s \in [links -> Details] : \A l \in links : s[l].source_url \in {l} \cup Media}

\* `is_reel = details['duration'] <= 60`
IsReel_mut(duration) == duration < ShortFormThreshold
IsReel(duration) == duration <= ShortFormThreshold

\* `success_count > 0`
HasSuccess_all(upload_results) ==
    Cardinality({i \in 1..Len(upload_results) : upload_results[i].status = "success"})
        = Len(upload_results)
HasSuccess_any(upload_results) ==
    Cardinality({i \in 1..Len(upload_results) : upload_results[i].status = "success"}) >= 0
HasSuccess(upload_results) ==
    Cardinality({i \in 1..Len(upload_results) : upload_results[i].status = "success"}) > 0

\* Files of DOWNLOAD_DIR: '%(id)s.%(ext)s' and "reel_" + basename.
OriginalFile(url) == [kind |-> "orig", id |-> url]
ReelFile(url) == [kind |-> "reel", id |-> url]
NoPath == [kind |-> "none", id |-> None]

\* _upload_reel: what Facebook answers to the three requests of the protocol.
\* The start request fails, answers without a 'video_id', or answers with one;
\* the transfer and the finish request fail (raise_for_status) or succeed.
ReelPhases == <<"start", "transfer", "finish">>
ReelReply(start, transfer, finish) ==
    [start |-> start, transfer |-> transfer, finish |-> finish]
\* (A request that follows a failed one is answered with a failure as well.)
ReelReplies == {ReelReply("http_error", FALSE, FALSE), ReelReply("no_video_id", FALSE, FALSE),
                ReelReply("video_id", FALSE, FALSE), ReelReply("video_id", TRUE, FALSE),
                ReelReply("video_id", TRUE, TRUE)}
\* The answers the requests made for one page get: to validate_token, then to
\* the upload is_reel chooses.
NoReply == ReelReply("http_error", FALSE, FALSE)
PageReplies(reel) ==
    {[token_ok |-> FALSE, reel |-> NoReply, regular_ok |-> FALSE]}
      \cup IF reel
           THEN {[token_ok |-> TRUE, reel |-> r, regular_ok |-> FALSE] : r \in ReelReplies}
           ELSE {[token_ok |-> TRUE, reel |-> NoReply, regular_ok |-> ok] : ok \in BOOLEAN}
ReelCall(phase, ok) == [phase |-> phase, ok |-> ok]

\* FacebookUploader._upload_reel: the requests it makes, in order, and what it
\* returns.  An error of a request (or a missing 'video_id') raises inside the
\* try block, and both handlers print and return None.  The mutant does not
\* look at the status of the transfer.
_upload_reel_mut(reply) ==
    IF reply.start # "video_id"
    THEN [calls |-> <<ReelCall("start", FALSE)>>, post_id |-> None]
    ELSE IF ~reply.finish
    THEN [calls |-> <<ReelCall("start", TRUE), ReelCall("transfer", reply.transfer),
                      ReelCall("finish", FALSE)>>,
          post_id |-> None]
    ELSE [calls |-> <<ReelCall("start", TRUE), ReelCall("transfer", reply.transfer),
                      ReelCall("finish", TRUE)>>,
          post_id |-> "video_id"]
_upload_reel(reply) ==
    IF reply.start # "video_id"
    THEN [calls |-> <<ReelCall("start", FALSE)>>, post_id |-> None]
    ELSE IF ~reply.transfer
    THEN [calls |-> <<ReelCall("start", TRUE), ReelCall("transfer", FALSE)>>,
          post_id |-> None]
    ELSE IF ~reply.finish
    THEN [calls |-> <<ReelCall("start", TRUE), ReelCall("transfer", TRUE),
                      ReelCall("finish", FALSE)>>,
          post_id |-> None]
    ELSE [calls |-> <<ReelCall("start", TRUE), ReelCall("transfer", TRUE),
                      ReelCall("finish", TRUE)>>,
          post_id |-> "video_id"]

\* FacebookUploader._upload_regular_video: one request; its 'id', or None when
\* the request fails.
_upload_regular_video(ok) == IF ok THEN "id" ELSE None

\* What one pass of the loop over `pages` comes to for a page: validate_token
\* is False, the upload returns None, the upload returns a post id.  (The
\* calls made inside the try block catch their own exceptions, so the loop's
\* `except Exception` is not entered for a page that load_pages accepted.)
PageEvents == {"invalid_token", "no_post_id", "posted"}
PageEvent(token_ok, post_id) ==
    IF ~token_ok THEN "invalid_token"
    ELSE IF post_id = None THEN "no_post_id"
    ELSE "posted"

\* The entry `results.append(...)` adds for the page.
Outcome(page, event) ==
    IF event = "posted"
    THEN [page_name |-> page.page_name, status |-> "success", error |-> None]
    ELSE IF event = "invalid_token"
    THEN [page_name |-> page.page_name, status |-> "failed", error |-> "Invalid access token"]
    ELSE [page_name |-> page.page_name, status |-> "failed", error |-> "Upload returned no post ID"]

VARIABLES
    feed,           \* the video pages the channel ever lists
    site,           \* what each of them holds
    registry,       \* what facebook_pages.json holds at one time or another
    pc,             \* the statement of main() the process is at
    data_file,      \* posted_videos.json
    storage,        \* the files of DOWNLOAD_DIR
    posted_videos,  \* VideoManager.posted_videos
    video_links,    \* the links the for loop has not reached yet
    link,           \* the loop variable
    details,        \* main's details
    is_reel,        \* main's is_reel
    video_path,     \* main's video_path
    pages,          \* upload_to_all_pages' pages
    pageIdx,        \* position of its for loop in pages
    upload_results, \* its results, then main's upload_results
    sleeping,       \* the seconds of the time.sleep under way, 0 without one
    items,          \* items taken past the ledger check so far
    faults,         \* faults of the environment so far
    \* history, read by the properties only
    saved,          \* how the last save_posted_videos ended
    savedUrl,       \* source_url of the last entry add_posted_video appended
    everDurable,    \* keys some completed write has put into posted_videos.json
    skipped,        \* links of this cycle found posted when examined
    recorded,       \* links whose item this process passed to add_posted_video
    leftover,       \* files of the last finished item still in DOWNLOAD_DIR
    recordArg,      \* the argument of this item's add_posted_video call
    dupRecord,      \* that call found the key already stored
    transformed,    \* this item went through convert_to_reel_format
    protocols,      \* upload protocols used for this item
    attempts,       \* indices of pages this distribution has handled
    discovered,     \* the links get_video_links returned for this cycle
    taken,          \* links of this cycle taken past the ledger check
    abandoned,      \* links of this cycle whose pass ended before the uploads
    failedLinks,    \* links whose last distribution in this process had no success
    scrapes,        \* get_video_links calls since the last sleep of the loop ended
    naps,           \* sleeps begun in this pass of the while loop
    cycleFailure,   \* what went wrong in the cycle behind the sleep under way
    cfgRead,        \* what the load_pages call read whose result is in use, or
                    \* which was the last to raise
    startupLoad,    \* how the load_pages call of main ended in this process
    reelCalls,      \* requests _upload_reel made for the page handled last
    pageCalls,      \* calls the pass of the page handled last made, in order
    reasons,        \* <<error of the entry, phase that failed>> of this
                    \* distribution's failed _upload_reel calls
    ledger0,        \* posted_videos when this item was taken up
    file0           \* posted_videos.json when this item was taken up

\* The variables of one pass of the for loop, and their history.
itemVars == <<link, details, is_reel, video_path, pages, pageIdx, upload_results>>
itemHist == <<recordArg, dupRecord, transformed, protocols, attempts, ledger0, file0>>
\* The history of the cycle's candidates.
candHist == <<discovered, taken, abandoned>>
\* The sleep of the while loop and what led to it.
sleepVars == <<sleeping, cycleFailure, scrapes, naps>>
\* The history of the load_pages calls.
loadHist == <<cfgRead, startupLoad>>
\* The history of one upload_to_all_pages call.
reelHist == <<reelCalls, reasons, pageCalls>>
\* The files, the budgets and the history that outlive a pass.
files == <<data_file, storage>>
\* The web site and the operator's file, which the program does not change.
env == <<feed, site, registry>>
fileHist == <<saved, savedUrl, everDurable>>
cycleHist == <<skipped, recorded>>
vars == <<env, pc, files, posted_videos, video_links, itemVars, items, faults,
          fileHist, cycleHist, leftover, itemHist, reelHist,
          loadHist, sleepVars, candHist, failedLinks>>

\* The state after the imports, with everything but the feed.
Start ==
    /\ pc = "boot"
    /\ data_file = MissingFile
    /\ storage = {}
    /\ posted_videos = <<>>
    /\ video_links = {}
    /\ link = None
    /\ details = NoDetails
    /\ is_reel = FALSE
    /\ video_path = NoPath
    /\ pages = <<>>
    /\ pageIdx = 0
    /\ upload_results = <<>>
    /\ items = 0
    /\ faults = 0
    /\ saved = "none"
    /\ savedUrl = None
    /\ everDurable = {}
    /\ skipped = {}
    /\ recorded = {}
    /\ leftover = {}
    /\ recordArg = NoDetails
    /\ dupRecord = FALSE
    /\ transformed = FALSE
    /\ protocols = {}
    /\ attempts = <<>>
    /\ ledger0 = <<>>
    /\ file0 = MissingFile
    /\ reelCalls = <<>>
    /\ pageCalls = <<>>
    /\ reasons = {}
    /\ cfgRead = NoConfig
    /\ startupLoad = "none"
    /\ sleeping = 0
    /\ cycleFailure = "none"
    /\ scrapes = 0
    /\ naps = 0
    /\ discovered = {}
    /\ taken = {}
    /\ abandoned = {}
    /\ failedLinks = {}

\* A channel with one video page.
Init ==
    /\ feed = {"L1"}
    /\ site \in PageContents(feed)
    /\ registry = Configs
    /\ Start

\* A pass of the for loop is over (`continue`, the end of the body, or the
\* `except Exception` of the body).  The values it left in the loop's
\* variables are read by no later statement (the next pass assigns each
\* before use), so they are dropped.
ClearItem ==
    /\ link' = None
    /\ details' = NoDetails
    /\ is_reel' = FALSE
    /\ video_path' = NoPath
    /\ pages' = <<>>
    /\ pageIdx' = 0
    /\ upload_results' = <<>>
    /\ recordArg' = NoDetails
    /\ dupRecord' = FALSE
    /\ transformed' = FALSE
    /\ protocols' = {}
    /\ attempts' = <<>>
    /\ ledger0' = <<>>
    /\ file0' = MissingFile
    /\ reelCalls' = <<>>
    /\ pageCalls' = <<>>
    /\ reasons' = {}

\* The pass is over: what it leaves of its own files in DOWNLOAD_DIR.
EndItem ==
    /\ leftover' = storage' \cap {OriginalFile(details.source_url), ReelFile(details.source_url)}
    /\ ClearItem

\* The pass gives the link up (`continue`, or the `except Exception` of the
\* body, which prints and continues): the for loop goes on with the next link.
\* The mutant lets the error through to the handler of the while loop.
Abandon_mut ==
    /\ pc' = "sleep_cooldown"
    /\ abandoned' = abandoned \cup {link}
    /\ EndItem
Abandon ==
    /\ pc' = "next_link"
    /\ abandoned' = abandoned \cup {link}
    /\ EndItem

\* ------------------------------------------------------------ process start
\* `video_manager = VideoManager()`: __init__ loads the ledger, and main goes
\* on whatever the file was like.  The mutant lets the error of a file that
\* does not parse end main.
InitManagers_mut ==
    /\ pc = "boot"
    /\ UNCHANGED env
    /\ UNCHANGED <<candHist, failedLinks>>
    /\ UNCHANGED sleepVars
    /\ UNCHANGED loadHist
    /\ posted_videos' = load_posted_videos(data_file)
    /\ pc' = IF data_file.state = "corrupt" THEN "exited" ELSE "load_pages"
    /\ UNCHANGED <<files, video_links, itemVars, items, faults, fileHist,
                   cycleHist, leftover, itemHist, reelHist>>

InitManagers ==
    /\ pc = "boot"
    /\ UNCHANGED env
    /\ UNCHANGED <<candHist, failedLinks>>
    /\ UNCHANGED sleepVars
    /\ UNCHANGED loadHist
    /\ posted_videos' = load_posted_videos(data_file)
    /\ pc' = "load_pages"
    /\ UNCHANGED <<files, video_links, itemVars, items, faults, fileHist,
                   cycleHist, leftover, itemHist, reelHist>>

\* `fb_pages = FacebookPageManager.load_pages()` reads facebook_pages.json as
\* it is at this moment; an error or an empty list prints and returns from
\* main.  (fb_pages itself is read once more, for `FacebookUploader(fb_pages[0])`,
\* an object upload_to_all_pages uses none of: the list is not kept.)  The
\* mutant goes on with a list of no pages.
LoadPagesAtStartup_mut ==
    /\ pc = "load_pages"
    /\ UNCHANGED env
    /\ UNCHANGED <<candHist, failedLinks>>
    /\ UNCHANGED sleepVars
    /\ \E cfg \in registry :
         LET r == load_pages(cfg) IN
           /\ startupLoad' = IF ~r.ok THEN "raised" ELSE IF r.pages = <<>> THEN "empty" ELSE "ok"
           /\ IF ~r.ok
              THEN pc' = "exited" /\ cfgRead' = cfg
              ELSE pc' = "discover" /\ cfgRead' = NoConfig
    /\ UNCHANGED <<files, posted_videos, video_links, itemVars, items, faults, fileHist,
                   cycleHist, leftover, itemHist, reelHist>>

LoadPagesAtStartup ==
    /\ pc = "load_pages"
    /\ UNCHANGED env
    /\ UNCHANGED <<candHist, failedLinks>>
    /\ UNCHANGED sleepVars
    /\ \E cfg \in registry :
         LET r == load_pages(cfg) IN
           /\ startupLoad' = IF ~r.ok THEN "raised" ELSE IF r.pages = <<>> THEN "empty" ELSE "ok"
           /\ IF ~r.ok \/ r.pages = <<>>
              THEN pc' = "exited" /\ cfgRead' = cfg
              ELSE pc' = "discover" /\ cfgRead' = NoConfig
    /\ UNCHANGED <<files, posted_videos, video_links, itemVars, items, faults, fileHist,
                   cycleHist, leftover, itemHist, reelHist>>

\* ------------------------------------------------------------ the poll loop
\* `video_links = scraper.get_video_links()`: a duplicate-free list (list(set())),
\* or [] when the scrape raises, which get_video_links catches itself; an
\* empty list sleeps CHECK_INTERVAL and starts over.  The mutant starts over
\* at once.
GetVideoLinks_mut ==
    /\ pc = "discover"
    /\ UNCHANGED env
    /\ taken' = {}
    /\ abandoned' = {}
    /\ UNCHANGED failedLinks
    /\ UNCHANGED loadHist
    /\ \E found \in SUBSET feed, raised \in BOOLEAN :
         /\ raised => found = {}
         /\ video_links' = found
         /\ discovered' = found
         /\ pc' = IF found = {} THEN "discover" ELSE "next_link"
         /\ sleeping' = 0
         /\ cycleFailure' = IF raised THEN "scrape" ELSE "none"
         /\ naps' = naps
    /\ scrapes' = scrapes + 1
    /\ skipped' = {}
    /\ UNCHANGED <<files, posted_videos, itemVars, items, faults, fileHist,
                   recorded, leftover, itemHist, reelHist>>

GetVideoLinks ==
    /\ pc = "discover"
    /\ UNCHANGED env
    /\ taken' = {}
    /\ abandoned' = {}
    /\ UNCHANGED failedLinks
    /\ UNCHANGED loadHist
    /\ \E found \in SUBSET feed, raised \in BOOLEAN :
         /\ raised => found = {}
         /\ video_links' = found
         /\ discovered' = found
         /\ pc' = IF found = {} THEN "sleep_empty" ELSE "next_link"
         /\ sleeping' = IF found = {} THEN CHECK_INTERVAL ELSE 0
         /\ cycleFailure' = IF raised THEN "scrape" ELSE "none"
         /\ naps' = IF found = {} THEN naps + 1 ELSE naps
    /\ scrapes' = scrapes + 1
    /\ skipped' = {}
    /\ UNCHANGED <<files, posted_videos, itemVars, items, faults, fileHist,
                   recorded, leftover, itemHist, reelHist>>

\* The time.sleep of the loop has elapsed: the next cycle begins.
WakeUp ==
    /\ pc \in {"sleep_empty", "sleep_poll", "sleep_cooldown"}
    /\ UNCHANGED env
    /\ discovered' = {}
    /\ taken' = {}
    /\ abandoned' = {}
    /\ UNCHANGED failedLinks
    /\ UNCHANGED loadHist
    /\ pc' = "discover"
    /\ sleeping' = 0
    /\ cycleFailure' = "none"
    /\ scrapes' = 0
    /\ naps' = 0
    /\ UNCHANGED <<files, posted_videos, video_links, itemVars, items, faults,
                   fileHist, cycleHist, leftover, itemHist, reelHist>>

\* A statement of the while loop's try block that is outside the try block of
\* the for loop's body raises an Exception (a print onto a closed stdout, a
\* MemoryError): `except Exception` prints, sleeps 300 seconds, and the while
\* loop goes round.  The mutant lets the exception end main.
CycleFailed_mut ==
    /\ pc \in {"discover", "next_link"}
    /\ UNCHANGED env
    /\ discovered' = {}
    /\ taken' = {}
    /\ abandoned' = {}
    /\ UNCHANGED failedLinks
    /\ UNCHANGED loadHist
    /\ faults < MaxFaults
    /\ faults' = faults + 1
    /\ pc' = "exited"
    /\ sleeping' = 0
    /\ cycleFailure' = "cycle"
    /\ UNCHANGED <<scrapes, naps>>
    /\ video_links' = {}
    /\ UNCHANGED <<files, posted_videos, itemVars, items, fileHist, cycleHist, leftover,
                   itemHist, reelHist>>

CycleFailed ==
    /\ pc \in {"discover", "next_link"}
    /\ UNCHANGED env
    /\ discovered' = {}
    /\ taken' = {}
    /\ abandoned' = {}
    /\ UNCHANGED failedLinks
    /\ UNCHANGED loadHist
    /\ faults < MaxFaults
    /\ faults' = faults + 1
    /\ pc' = "sleep_cooldown"
    /\ sleeping' = RetrySleep
    /\ cycleFailure' = "cycle"
    /\ naps' = naps + 1
    /\ UNCHANGED scrapes
    /\ video_links' = {}
    /\ UNCHANGED <<files, posted_videos, itemVars, items, fileHist, cycleHist, leftover,
                   itemHist, reelHist>>

\* Ctrl-C while main sleeps.  The two sleeps of the try block are left through
\* `except KeyboardInterrupt` and `break`, and main returns.  The sleep of the
\* `except Exception` handler is outside the try block: the interrupt is
\* caught by no handler (the outer one is for Exception) and ends the process
\* with a traceback.
KeyboardInterrupt ==
    /\ pc \in {"sleep_empty", "sleep_poll", "sleep_cooldown"}
    /\ UNCHANGED env
    /\ UNCHANGED <<candHist, failedLinks>>
    /\ UNCHANGED loadHist
    /\ pc' = IF pc = "sleep_cooldown" THEN "aborted" ELSE "stopped"
    /\ sleeping' = 0
    /\ cycleFailure' = "none"
    /\ UNCHANGED <<scrapes, naps>>
    /\ UNCHANGED <<files, posted_videos, video_links, itemVars, items, faults,
                   fileHist, cycleHist, leftover, itemHist, reelHist>>

\* `for link in video_links:` takes the next link and asks the ledger about it;
\* a posted link is skipped.  The mutant goes on to process it.
CheckPosted_mut ==
    /\ pc = "next_link"
    /\ UNCHANGED env
    /\ UNCHANGED <<discovered, abandoned, failedLinks>>
    /\ UNCHANGED sleepVars
    /\ cfgRead' = NoConfig
    /\ UNCHANGED startupLoad
    /\ \E l \in video_links :
         /\ items < MaxItems
         /\ link' = l
         /\ video_links' = video_links \ {l}
         /\ skipped' = IF is_video_posted(posted_videos, l) THEN skipped \cup {l} ELSE skipped
         /\ items' = items + 1
         /\ pc' = "fetch"
         /\ ledger0' = posted_videos
         /\ file0' = data_file
         /\ leftover' = {}
         /\ taken' = taken \cup {l}
         /\ UNCHANGED <<details, is_reel, video_path, pages, pageIdx, upload_results,
                        recordArg, dupRecord, transformed, protocols, attempts, reelHist>>
    /\ UNCHANGED <<files, posted_videos, faults, fileHist, recorded>>

CheckPosted ==
    /\ pc = "next_link"
    /\ UNCHANGED env
    /\ UNCHANGED <<discovered, abandoned, failedLinks>>
    /\ UNCHANGED sleepVars
    /\ UNCHANGED startupLoad
    /\ \E l \in video_links :
         /\ video_links' = video_links \ {l}
         /\ IF is_video_posted(posted_videos, l)
            THEN /\ skipped' = skipped \cup {l}
                 /\ pc' = "next_link"
                 /\ UNCHANGED <<itemVars, itemHist, reelHist, items, leftover, cfgRead, taken>>
            ELSE /\ items < MaxItems
                 /\ items' = items + 1
                 /\ link' = l
                 /\ skipped' = skipped
                 /\ pc' = "fetch"
                 /\ ledger0' = posted_videos
                 /\ file0' = data_file
                 /\ leftover' = {}
                 /\ cfgRead' = NoConfig
                 /\ taken' = taken \cup {l}
                 /\ UNCHANGED <<details, is_reel, video_path, pages, pageIdx,
                                upload_results, recordArg, dupRecord, transformed,
                                protocols, attempts, reelHist>>
    /\ UNCHANGED <<files, posted_videos, faults, fileHist, recorded>>

\* The for loop is exhausted: "Cycle completed", `time.sleep(CHECK_INTERVAL)`.
CycleCompleted ==
    /\ pc = "next_link"
    /\ UNCHANGED env
    /\ UNCHANGED <<candHist, failedLinks>>
    /\ UNCHANGED loadHist
    /\ video_links = {}
    /\ pc' = "sleep_poll"
    /\ sleeping' = CHECK_INTERVAL
    /\ naps' = naps + 1
    /\ UNCHANGED <<cycleFailure, scrapes>>
    /\ UNCHANGED <<files, posted_videos, video_links, itemVars, items, faults,
                   fileHist, cycleHist, leftover, itemHist, reelHist>>

\* `details = scraper.get_video_details(link)`: None, or a dictionary whose
\* 'source_url' is the media URL _extract_video_url found in the page.
GetVideoDetails ==
    /\ pc = "fetch"
    /\ UNCHANGED env
    /\ UNCHANGED <<discovered, taken, failedLinks>>
    /\ UNCHANGED sleepVars
    /\ UNCHANGED loadHist
    /\ UNCHANGED storage
    /\ \E d \in {site[link], NoDetails} :
         IF d = NoDetails
         THEN /\ Abandon
         ELSE /\ pc' = "download"
              /\ details' = d
              /\ UNCHANGED abandoned
              /\ UNCHANGED <<link, is_reel, video_path, pages, pageIdx, upload_results,
                             itemHist, reelHist, leftover>>
    /\ UNCHANGED <<data_file, posted_videos, video_links, items,
                   faults, fileHist, skipped, recorded>>

\* `original_path = VideoProcessor.download_video(details['source_url'])`
DownloadVideo ==
    /\ pc = "download"
    /\ UNCHANGED env
    /\ UNCHANGED <<discovered, taken, failedLinks>>
    /\ UNCHANGED sleepVars
    /\ UNCHANGED loadHist
    /\ \E ok \in BOOLEAN :
         IF ok
         THEN /\ storage' = storage \cup {OriginalFile(details.source_url)}
              /\ video_path' = OriginalFile(details.source_url)
              /\ pc' = "classify"
              /\ UNCHANGED abandoned
              /\ UNCHANGED <<link, details, is_reel, pages, pageIdx, upload_results,
                             itemHist, reelHist, leftover>>
         ELSE /\ UNCHANGED storage
              /\ Abandon
    /\ UNCHANGED <<data_file, posted_videos, video_links, items,
                   faults, fileHist, skipped, recorded>>

\* The short branch: convert_to_reel_format, `os.remove(original_path)`, and
\* `continue` when the conversion returned None.
ConvertToReel ==
    /\ pc = "classify"
    /\ UNCHANGED env
    /\ UNCHANGED <<discovered, taken, failedLinks>>
    /\ UNCHANGED sleepVars
    /\ UNCHANGED loadHist
    /\ IsReel(details.duration)
    /\ \E ok \in BOOLEAN :
         IF ok
         THEN /\ storage' = (storage \cup {ReelFile(details.source_url)}) \ {video_path}
              /\ video_path' = ReelFile(details.source_url)
              /\ is_reel' = TRUE
              /\ transformed' = TRUE
              /\ pc' = "distribute"
              /\ UNCHANGED abandoned
              /\ UNCHANGED <<link, details, pages, pageIdx, upload_results, recordArg,
                             dupRecord, protocols, attempts, ledger0, file0, leftover, reelHist>>
         ELSE /\ storage' = storage \ {video_path}
              /\ Abandon
    /\ UNCHANGED <<data_file, posted_videos, video_links, items,
                   faults, fileHist, skipped, recorded>>

\* The long branch: `video_path = original_path`.
KeepRegular ==
    /\ pc = "classify"
    /\ UNCHANGED env
    /\ UNCHANGED <<candHist, failedLinks>>
    /\ UNCHANGED sleepVars
    /\ UNCHANGED loadHist
    /\ ~IsReel(details.duration)
    /\ is_reel' = FALSE
    /\ pc' = "distribute"
    /\ UNCHANGED <<files, posted_videos, video_links, link, details, video_path,
                   pages, pageIdx, upload_results, items, faults, fileHist, cycleHist,
                   leftover, itemHist, reelHist>>

\* ------------------------------------------------------ upload_to_all_pages
\* `uploader.upload_to_all_pages(video_path, description, is_reel)` begins with
\* `pages = FacebookPageManager.load_pages()`, which reads facebook_pages.json
\* as it is at this moment; when that raises, the exception leaves the call
\* and main's `except Exception` goes on to the next link.
StartUpload ==
    /\ pc = "distribute"
    /\ UNCHANGED env
    /\ UNCHANGED <<discovered, taken, failedLinks>>
    /\ UNCHANGED sleepVars
    /\ UNCHANGED startupLoad
    /\ UNCHANGED storage
    /\ \E cfg \in registry :
         LET r == load_pages(cfg) IN
           /\ cfgRead' = cfg
           /\ IF r.ok
              THEN /\ pages' = r.pages
                   /\ pageIdx' = 1
                   /\ upload_results' = <<>>
                   /\ pc' = "upload"
                   /\ UNCHANGED abandoned
                   /\ UNCHANGED <<link, details, is_reel, video_path, itemHist, reelHist,
                                  leftover, faults>>
              ELSE /\ faults < MaxFaults
                   /\ faults' = faults + 1
                   /\ Abandon
    /\ UNCHANGED <<data_file, posted_videos, video_links, items, fileHist, skipped,
                   recorded>>

\* A call made for a page, how it ended, and the seconds a sleep was for.
PageCall(call, ok, secs) == [call |-> call, ok |-> ok, secs |-> secs]
\* `if page != pages[-1]: time.sleep(UPLOAD_DELAY)`
DelayAfter(page) ==
    IF page # pages[Len(pages)] THEN <<PageCall("sleep", TRUE, UPLOAD_DELAY)>> ELSE <<>>

\* The page's entry of `results`, and the history of the pass, for the answers
\* the page's requests get: validate_token, and when it is True the upload
\* and then the delay; when it is False the entry and `continue`.  The mutant
\* goes on to the upload whatever validate_token said.
PagePass_mut(token_ok, reply, regular_ok) ==
    LET reel == _upload_reel(reply)
        post_id == IF is_reel THEN reel.post_id ELSE _upload_regular_video(regular_ok)
        entry == Outcome(pages[pageIdx], PageEvent(TRUE, post_id))
    IN  /\ upload_results' = Append(upload_results, entry)
        /\ protocols' = protocols \cup {IF is_reel THEN "reel" ELSE "regular"}
        /\ reelCalls' = IF is_reel THEN reel.calls ELSE <<>>
        /\ reasons' = reasons
        /\ pageCalls' = <<PageCall("validate_token", token_ok, 0),
                          PageCall(IF is_reel THEN "_upload_reel" ELSE "_upload_regular_video",
                                   post_id # None, 0)>>
                           \o DelayAfter(pages[pageIdx])
        /\ attempts' = Append(attempts, pageIdx)
PagePass(token_ok, reply, regular_ok) ==
    LET reel == _upload_reel(reply)
        post_id == IF is_reel THEN reel.post_id ELSE _upload_regular_video(regular_ok)
        entry == Outcome(pages[pageIdx], PageEvent(token_ok, post_id))
    IN  /\ upload_results' = Append(upload_results, entry)
        /\ protocols' = IF token_ok
                        THEN protocols \cup {IF is_reel THEN "reel" ELSE "regular"}
                        ELSE protocols
        /\ reelCalls' = IF token_ok /\ is_reel THEN reel.calls ELSE <<>>
        /\ reasons' = IF token_ok /\ is_reel /\ post_id = None
                      THEN reasons \cup {<<entry.error, reel.calls[Len(reel.calls)].phase>>}
                      ELSE reasons
        /\ pageCalls' =
              IF ~token_ok
              THEN <<PageCall("validate_token", FALSE, 0)>>
              ELSE <<PageCall("validate_token", TRUE, 0),
                     PageCall(IF is_reel THEN "_upload_reel" ELSE "_upload_regular_video",
                              post_id # None, 0)>>
                     \o DelayAfter(pages[pageIdx])
        /\ attempts' = Append(attempts, pageIdx)

\* One pass of `for page in pages:`.  The mutant leaves the loop at the first
\* page that did not get the video.
UploadToPage_mut ==
    /\ pc = "upload"
    /\ UNCHANGED env
    /\ UNCHANGED <<candHist, failedLinks>>
    /\ UNCHANGED sleepVars
    /\ UNCHANGED loadHist
    /\ pageIdx <= Len(pages)
    /\ \E r \in PageReplies(is_reel) :
         /\ PagePass(r.token_ok, r.reel, r.regular_ok)
         /\ pageIdx' = IF upload_results'[pageIdx].status = "success"
                       THEN pageIdx + 1 ELSE Len(pages) + 1
    /\ UNCHANGED <<pc, files, posted_videos, video_links, link, details, is_reel,
                   video_path, pages, items, faults, fileHist, cycleHist, leftover,
                   recordArg, dupRecord, transformed, ledger0, file0>>

\* One pass of `for page in pages:`: validate_token is False ("failed"), or
\* the protocol chosen by is_reel returns None ("failed") or a post id
\* ("success").  Every branch appends one entry and goes on with the next page.
UploadToPage ==
    /\ pc = "upload"
    /\ UNCHANGED env
    /\ UNCHANGED <<candHist, failedLinks>>
    /\ UNCHANGED sleepVars
    /\ UNCHANGED loadHist
    /\ pageIdx <= Len(pages)
    /\ \E r \in PageReplies(is_reel) :
         PagePass(r.token_ok, r.reel, r.regular_ok)
    /\ pageIdx' = pageIdx + 1
    /\ UNCHANGED <<pc, files, posted_videos, video_links, link, details, is_reel,
                   video_path, pages, items, faults, fileHist, cycleHist, leftover,
                   recordArg, dupRecord, transformed, ledger0, file0>>

\* `return results` (the history of the requests ends with the call), then main
\* counts the successes: with one or more it sets details["posted_to"] and
\* calls add_posted_video, which appends and saves unless the key is stored
\* already.
RecordResults ==
    /\ pc = "upload"
    /\ UNCHANGED env
    /\ UNCHANGED candHist
    /\ UNCHANGED sleepVars
    /\ UNCHANGED loadHist
    /\ pageIdx > Len(pages)
    /\ IF HasSuccess(upload_results)
       THEN LET d == [details EXCEPT !.posted_to = upload_results]
                nv == add_posted_video(posted_videos, d)
            IN  /\ details' = d
                /\ recordArg' = d
                /\ recorded' = recorded \cup {link}
                /\ dupRecord' = is_video_posted(posted_videos, d.source_url)
                /\ posted_videos' = nv
                /\ IF nv # posted_videos
                   THEN /\ pc' = "save_open"
                        /\ saved' = "called"
                        /\ savedUrl' = d.source_url
                   ELSE /\ pc' = "cleanup"
                        /\ UNCHANGED <<saved, savedUrl>>
       ELSE /\ pc' = "cleanup"
            /\ UNCHANGED <<details, recordArg, recorded, dupRecord, posted_videos, saved,
                           savedUrl>>
    /\ reelCalls' = <<>>
    /\ pageCalls' = <<>>
    /\ reasons' = {}
    /\ failedLinks' = IF \E i \in 1..Len(upload_results) : upload_results[i].status = "success"
                      THEN failedLinks \ {link}
                      ELSE failedLinks \cup {link}
    /\ UNCHANGED <<files, video_links, link, is_reel, video_path, pages, pageIdx,
                   upload_results, items, faults, everDurable, skipped, leftover,
                   transformed, protocols, attempts, ledger0, file0>>

\* ------------------------------------------------------ save_posted_videos
\* `open(self.data_file, 'w')`: truncates the file, or raises and the handler
\* prints and returns.
SaveOpen ==
    /\ pc = "save_open"
    /\ UNCHANGED env
    /\ UNCHANGED <<candHist, failedLinks>>
    /\ UNCHANGED sleepVars
    /\ UNCHANGED loadHist
    /\ \E ok \in BOOLEAN :
         IF ok
         THEN /\ data_file' = EmptyFile
              /\ saved' = "pending"
              /\ pc' = "save_write"
              /\ UNCHANGED faults
         ELSE /\ faults < MaxFaults
              /\ faults' = faults + 1
              /\ UNCHANGED data_file
              /\ saved' = "failed"
              /\ pc' = "cleanup"
    /\ UNCHANGED <<storage, posted_videos, video_links, itemVars,
                   items, savedUrl, everDurable, cycleHist, leftover, itemHist, reelHist>>

\* `json.dump(self.posted_videos, f, indent=2)` and the close of the file: the
\* whole list is written, or the write raises part-way and the handler prints
\* and returns.
SaveWrite ==
    /\ pc = "save_write"
    /\ UNCHANGED env
    /\ UNCHANGED <<candHist, failedLinks>>
    /\ UNCHANGED sleepVars
    /\ UNCHANGED loadHist
    /\ \E ok \in BOOLEAN :
         IF ok
         THEN /\ data_file' = json_dump(posted_videos)
              /\ saved' = "ok"
              /\ everDurable' = everDurable \cup
                     {data_file'.data[i].source_url : i \in 1..Len(data_file'.data)}
              /\ UNCHANGED faults
         ELSE /\ faults < MaxFaults
              /\ faults' = faults + 1
              /\ data_file' \in {EmptyFile, CorruptFile}
              /\ saved' = "failed"
              /\ UNCHANGED everDurable
    /\ pc' = "cleanup"
    /\ UNCHANGED <<storage, posted_videos, video_links, itemVars,
                   items, savedUrl, cycleHist, leftover, itemHist, reelHist>>

\* `os.remove(video_path)` after the upload; the body of the loop ends.
RemoveVideoFile ==
    /\ pc = "cleanup"
    /\ UNCHANGED env
    /\ UNCHANGED <<candHist, failedLinks>>
    /\ UNCHANGED sleepVars
    /\ cfgRead' = NoConfig
    /\ UNCHANGED startupLoad
    /\ storage' = storage \ {video_path}
    /\ pc' = "next_link"
    /\ EndItem
    /\ UNCHANGED <<data_file, posted_videos, video_links, items,
                   faults, fileHist, cycleHist>>

\* ------------------------------------------------------------ environment
\* The process is killed.  Its memory is gone, the files stay; a write that
\* was under way leaves the truncated file or a part of the JSON text.
Crash ==
    /\ pc \notin {"boot", "dead", "exited", "stopped", "aborted"}
    /\ UNCHANGED env
    /\ discovered' = {}
    /\ taken' = {}
    /\ abandoned' = {}
    /\ failedLinks' = {}
    /\ cfgRead' = NoConfig
    /\ startupLoad' = "none"
    /\ sleeping' = 0
    /\ cycleFailure' = "none"
    /\ scrapes' = 0
    /\ naps' = 0
    /\ faults < MaxFaults
    /\ faults' = faults + 1
    /\ pc' = "dead"
    /\ IF pc = "save_write"
       THEN data_file' \in {EmptyFile, CorruptFile}
       ELSE UNCHANGED data_file
    /\ posted_videos' = <<>>
    /\ video_links' = {}
    /\ ClearItem
    /\ skipped' = {}
    /\ recorded' = {}
    /\ leftover' = {}
    /\ UNCHANGED <<storage, items, fileHist>>

\* The program is started again.
Restart ==
    /\ pc = "dead"
    /\ UNCHANGED env
    /\ UNCHANGED <<candHist, failedLinks>>
    /\ UNCHANGED sleepVars
    /\ UNCHANGED loadHist
    /\ pc' = "boot"
    /\ UNCHANGED <<files, posted_videos, video_links, itemVars, items, faults,
                   fileHist, cycleHist, leftover, itemHist, reelHist>>

Next ==
    \/ InitManagers
    \/ LoadPagesAtStartup
    \/ GetVideoLinks
    \/ WakeUp
    \/ CheckPosted
    \/ CycleCompleted
    \/ CycleFailed
    \/ KeyboardInterrupt
    \/ GetVideoDetails
    \/ DownloadVideo
    \/ ConvertToReel
    \/ KeepRegular
    \/ StartUpload
    \/ UploadToPage
    \/ RecordResults
    \/ SaveOpen
    \/ SaveWrite
    \/ RemoveVideoFile
    \/ Crash
    \/ Restart

Spec == Init /\ [][Next]_vars

\* A channel with two video pages, one page in facebook_pages.json unless the
\* file is missing, and a process that is not killed or interrupted and
\* whose statements outside the body of the for loop do not raise.
InitTwo ==
    /\ feed = {"L1", "L2"}
    /\ site \in PageContents(feed)
    /\ registry = {c \in Configs : c.kind = "missing" \/ Len(c.pages) = 1}
    /\ Start

NextTwo ==
    \/ InitManagers
    \/ LoadPagesAtStartup
    \/ GetVideoLinks
    \/ WakeUp
    \/ CheckPosted
    \/ CycleCompleted
    \/ GetVideoDetails
    \/ DownloadVideo
    \/ ConvertToReel
    \/ KeepRegular
    \/ StartUpload
    \/ UploadToPage
    \/ RecordResults
    \/ SaveOpen
    \/ SaveWrite
    \/ RemoveVideoFile

SpecTwo == InitTwo /\ [][NextTwo]_vars

\* ================================================================ properties
\* The statements of one pass of the for loop, after the ledger check.
WorkPcs == {"fetch", "download", "classify", "distribute", "upload", "save_open",
            "save_write", "cleanup"}
\* upload_to_all_pages has returned to main.
ReturnedPcs == {"save_open", "save_write", "cleanup"}

AnySuccess == \E i \in 1..Len(upload_results) : upload_results[i].status = "success"

\* C1: once the process has recorded an item discovered under link L, the
\* ledger's membership query for L is true from then on, so that a later cycle
\* skips L.
C1_AtMostOnce ==
    \A l \in recorded : is_video_posted(posted_videos, l)

\* C2: when upload_to_all_pages returns a list without a "success" (the empty
\* list included), main makes no add_posted_video call for the item and the
\* ledger is as the item found it, in memory and in posted_videos.json.
C2_ZeroSuccessNotRecorded ==
    (pc = "cleanup" /\ ~AnySuccess) =>
        /\ recordArg = NoDetails
        /\ posted_videos = ledger0
        /\ data_file = file0

C2_Witness ==
    /\ pc = "cleanup"
    /\ Len(upload_results) = 2
    /\ ~AnySuccess
    /\ ledger0 # <<>>

\* C3: when upload_to_all_pages returns a list with a "success", main has
\* called add_posted_video, before the pass ends, with the item's details
\* carrying the whole list: one outcome per page of the list, in its order,
\* the failed ones included.
C3_RecordOnSuccess ==
    (pc \in ReturnedPcs /\ AnySuccess) =>
        /\ recordArg # NoDetails
        /\ recordArg.source_url = details.source_url
        /\ recordArg.duration = details.duration
        /\ recordArg.posted_to = upload_results
        /\ Len(recordArg.posted_to) = Len(pages)
        /\ \A i \in 1..Len(pages) : recordArg.posted_to[i].page_name = pages[i].page_name
        /\ is_video_posted(posted_videos, details.source_url)

C3_Witness ==
    /\ pc = "cleanup"
    /\ Len(pages) = 2
    /\ recordArg.posted_to = upload_results
    /\ upload_results[1].status = "failed"
    /\ upload_results[2].status = "success"
    /\ posted_videos[Len(posted_videos)] = recordArg

\* C4: no two entries of the ledger share a source_url, and an
\* add_posted_video call for a key that is stored already leaves the ledger
\* and its file as they were: the first entry stays, the second is not added.
C4_IdempotentRecording ==
    /\ \A i, j \in 1..Len(posted_videos) :
          posted_videos[i].source_url = posted_videos[j].source_url => i = j
    /\ dupRecord => (posted_videos = ledger0 /\ data_file = file0)

C4_Witness ==
    /\ pc = "cleanup"
    /\ dupRecord
    /\ Len(posted_videos) = 1
    /\ posted_videos[1].source_url = recordArg.source_url
    /\ posted_videos[1] # recordArg

\* C5: a link the ledger reported as posted when the loop examined it is not
\* fetched, downloaded, converted or uploaded in that cycle: the link a pass
\* works on was not posted when the pass took it up, and is none of the links
\* this cycle skipped.
C5_DedupBeforeWork ==
    pc \in WorkPcs =>
        /\ link \notin skipped
        /\ ~is_video_posted(ledger0, link)

C5_Witness ==
    /\ pc = "next_link"
    /\ skipped # {}
    /\ \A l \in skipped : is_video_posted(posted_videos, l)

\* C6: one upload_to_all_pages call handles every page of the list it loaded,
\* in the list's order, and returns one outcome per page, the i-th for the
\* i-th page, whatever the pages before it met.
C6_FanOut ==
    /\ pc = "upload" =>
          /\ pageIdx \in 1..(Len(pages) + 1)
          /\ Len(upload_results) = pageIdx - 1
    /\ pc \in ReturnedPcs =>
          /\ Len(upload_results) = Len(pages)
          /\ attempts = [i \in 1..Len(pages) |-> i]
          /\ \A i \in 1..Len(pages) : upload_results[i].page_name = pages[i].page_name

C6_Witness ==
    /\ pc = "cleanup"
    /\ attempts = <<1, 2>>
    /\ upload_results[1].error = "Invalid access token"
    /\ upload_results[2].status = "success"

\* C7: whenever a pass of the loop is over, however it ended, none of the
\* item's files (the downloaded one, the converted one) is left in
\* DOWNLOAD_DIR.
C7_AssetCleanup ==
    leftover = {}

\* C8: an item that reaches the upload was converted exactly when its duration
\* is at most 60 (60 included), the flag passed to upload_to_all_pages is that
\* same condition, and the only protocol used for it is the reel one when it
\* was converted and the regular one when it was not.
C8_TransformIffShort ==
    pc \in {"distribute", "upload"} \cup ReturnedPcs =>
        /\ transformed <=> details.duration <= 60
        /\ is_reel <=> details.duration <= 60
        /\ protocols \subseteq {IF transformed THEN "reel" ELSE "regular"}
        /\ video_path = IF transformed THEN ReelFile(details.source_url)
                        ELSE OriginalFile(details.source_url)

C8_Witness ==
    /\ pc = "cleanup"
    /\ details.duration = 60
    /\ transformed
    /\ protocols = {"reel"}

\* C9 as claimed: once add_posted_video has returned after appending an entry,
\* posted_videos.json holds that entry, also when the write met an I/O error.
C9_DurableRecord ==
    saved \in {"ok", "failed"} =>
        is_video_posted(load_posted_videos(data_file), savedUrl)

\* C9 as amended: once add_posted_video has returned after appending an entry
\* and its write raised no error, posted_videos.json holds the whole ledger
\* with that entry, and until the next write begins every process, restarted
\* ones included, has the entry in its ledger once the ledger is loaded.
C9_DurableUnlessWriteFailed ==
    saved = "ok" =>
        /\ data_file.state = "ok"
        /\ is_video_posted(data_file.data, savedUrl)
        /\ pc \in ReturnedPcs => data_file.data = posted_videos
        /\ pc \notin {"boot", "dead"} => is_video_posted(posted_videos, savedUrl)

C9_Witness ==
    /\ saved = "ok"
    /\ faults > 0
    /\ pc = "load_pages"
    /\ is_video_posted(posted_videos, savedUrl)

\* C10: at every instant posted_videos.json holds a complete ledger, the one
\* before the write or the one after it, so that whatever a completed write
\* once put there is in the ledger a restart would load.
C10_AtomicRewrite ==
    \A u \in everDurable : is_video_posted(load_posted_videos(data_file), u)

\* C11: when the reel protocol fails for a page, the reason stored in the
\* page's entry tells which phase failed: no reason stands for two phases.
C11_PhaseReason ==
    \A p \in reasons : \A q \in reasons : p[1] = q[1] => p[2] = q[2]

\* C20: _upload_reel asks for start, transfer and finish in this order, makes
\* a request only when the one before succeeded (transfer only with a
\* 'video_id' from start), and a page's entry is a success only when all three
\* succeeded.
C20_ReelOrder ==
    /\ Len(reelCalls) <= Len(ReelPhases)
    /\ \A k \in 1..Len(reelCalls) : reelCalls[k].phase = ReelPhases[k]
    /\ \A k \in 2..Len(reelCalls) : reelCalls[k - 1].ok
    /\ (pc = "upload" /\ is_reel /\ upload_results # <<>>
          /\ upload_results[Len(upload_results)].status = "success")
         => /\ Len(reelCalls) = Len(ReelPhases)
            /\ \A k \in 1..Len(reelCalls) : reelCalls[k].ok

C20_Witness ==
    /\ pc = "upload"
    /\ is_reel
    /\ reelCalls = <<ReelCall("start", TRUE), ReelCall("transfer", FALSE)>>
    /\ upload_results[Len(upload_results)].status = "failed"

\* The file load_pages read gives it nothing to return: it is missing, does
\* not hold a list, or an entry of the list lacks a key.
Unusable(cfg) ==
    \/ cfg.kind \in {"missing", "notlist"}
    \/ \E i \in 1..Len(cfg.pages) :
          cfg.pages[i].page_id = None \/ cfg.pages[i].access_token = None
            \/ cfg.pages[i].page_name = None
\* The statements of upload_to_all_pages and main that have `pages`.
HavePages == {"upload"} \cup ReturnedPcs

\* C12: load_pages raises, and its caller gets no page, when the file is
\* missing, is not a list or has an entry lacking a key; otherwise the caller
\* gets every entry of the file: never a part of them.
C12_FailFast ==
    cfgRead # NoConfig =>
        /\ Unusable(cfgRead) => pc \notin HavePages /\ pages = <<>>
        /\ pc \in HavePages => pages = cfgRead.pages
        /\ pc = "exited" => startupLoad = IF Unusable(cfgRead) THEN "raised" ELSE "empty"

C12_Witness ==
    /\ pc = "next_link"
    /\ cfgRead.kind = "list"
    /\ Len(cfgRead.pages) = 2
    /\ Unusable(cfgRead)

\* C13: in every list of pages a distribution works with, each entry has a
\* non-empty page_id, access_token and page_name, and no two entries have the
\* same page_id.
C13_DestinationInvariant ==
    pc \in HavePages =>
        /\ \A i \in 1..Len(pages) : \A f \in required_fields : pages[i][f] \notin {None, ""}
        /\ \A i \in 1..Len(pages) : \A j \in 1..Len(pages) :
              i # j => pages[i].page_id # pages[j].page_id

\* C17: when the load_pages call of main raises or returns no page, the
\* process is past its last statement: it never scrapes, fetches, downloads,
\* converts, uploads or records.
C17_StartupFatal ==
    startupLoad \in {"raised", "empty"} =>
        /\ pc = "exited"
        /\ video_links = {}
        /\ link = None
        /\ pages = <<>>

C17_Witness ==
    /\ startupLoad = "empty"
    /\ pc = "exited"

\* C14 as stated: after a failure of the cycle above a single item (a
\* statement of the loop raises, or the scrape itself fails) the process
\* sleeps longer than the poll interval before the next cycle.
C14_LongerCooldown ==
    cycleFailure # "none" => sleeping > CHECK_INTERVAL

\* C14: an exception of a statement of the loop is caught, the process goes
\* on, and it sleeps 300 seconds, less than the poll interval, before the next
\* cycle; a failure of the scrape is caught by get_video_links and the cycle
\* ends with the sleep of an empty feed, CHECK_INTERVAL.
C14_RetrySleep ==
    /\ cycleFailure = "cycle" =>
          pc = "sleep_cooldown" /\ sleeping = RetrySleep /\ sleeping < CHECK_INTERVAL
    /\ cycleFailure = "scrape" => pc = "sleep_empty" /\ sleeping = CHECK_INTERVAL
    /\ pc = "discover" => sleeping = 0 /\ cycleFailure = "none"

C14_Witness ==
    /\ cycleFailure = "cycle"
    /\ pc = "sleep_cooldown"
    /\ posted_videos # <<>>

\* C18: with posted_videos.json missing, empty or not parseable the process
\* starts with a ledger that contains no key, and it goes on to load the
\* registry: it is the registry alone that can make main return.
C18_LedgerInit ==
    /\ (pc = "load_pages" /\ data_file.state \in {"missing", "empty", "corrupt"})
         => \A u \in URLs : ~is_video_posted(posted_videos, u)
    /\ pc = "exited" => startupLoad \in {"raised", "empty"}

C18_Witness ==
    /\ pc = "load_pages"
    /\ data_file.state = "corrupt"
    /\ posted_videos = <<>>

\* C19: a keyboard interrupt during any sleep of the loop (after a cycle,
\* after an empty scrape, after a failed cycle) ends the loop in an orderly
\* way, with posted_videos.json holding the ledger as the last record left it.
C19_CleanTermination ==
    /\ pc # "aborted"
    /\ pc = "stopped" =>
          /\ data_file.state # "corrupt"
          /\ load_posted_videos(data_file) = posted_videos

\* C15: a link whose last distribution had no success is not in the ledger,
\* and a cycle that finds it again does not skip it but takes it up from
\* get_video_details on; this lasts until a distribution of it has a success.
C15_RetryUntilSuccess ==
    \A l \in failedLinks :
        /\ ~is_video_posted(posted_videos, l)
        /\ l \notin skipped
        /\ (pc = "sleep_poll" /\ l \in discovered) => l \in taken

C15_Witness ==
    /\ link \in failedLinks
    /\ pc = "upload"
    /\ upload_results # <<>>
    /\ upload_results[Len(upload_results)].status = "success"

\* C16: a link given up in a cycle does not end the cycle: every link the
\* scrape returned is examined, each one skipped as posted or taken up, and
\* no error of a pass reaches the handler of the while loop.
C16_ItemIsolation ==
    /\ pc # "sleep_cooldown"
    /\ pc = "sleep_poll" => discovered = skipped \cup taken
    /\ pc \in {"next_link"} \cup WorkPcs => discovered = skipped \cup taken \cup video_links

C16_Witness ==
    /\ pc = "upload"
    /\ abandoned # {}
    /\ link \notin abandoned

\* The upload calls of upload_to_all_pages.
Publishes == {"_upload_reel", "_upload_regular_video"}
\* The pass of the page handled last made this call.
Called(calls) == \E k \in 1..Len(pageCalls) : pageCalls[k].call \in calls

\* C21: no upload is made for a page unless validate_token was called first
\* in the same pass and returned True; a page whose token is refused gets one
\* entry, "failed" with "Invalid access token", no upload and no delay.
C21_PreflightGuard ==
    (pc = "upload" /\ upload_results # <<>>) =>
        LET entry == upload_results[Len(upload_results)] IN
        /\ Len(upload_results) = pageIdx - 1
        /\ pageCalls[1].call = "validate_token"
        /\ \A k \in 2..Len(pageCalls) : pageCalls[k].call # "validate_token"
        /\ Called(Publishes) => pageCalls[1].ok
        /\ ~pageCalls[1].ok =>
              /\ entry.status = "failed"
              /\ entry.error = "Invalid access token"
              /\ entry.page_name = pages[pageIdx - 1].page_name
              /\ Len(pageCalls) = 1

C21_Witness ==
    /\ pc = "upload"
    /\ Len(upload_results) = 1
    /\ Len(pages) = 2
    /\ pageCalls = <<PageCall("validate_token", FALSE, 0)>>

\* C22: in upload_to_all_pages, a page for which an upload was made and which
\* is not the last of the list is followed by a sleep of UPLOAD_DELAY, and the
\* last page of the list by none, whatever list load_pages returned.
C22_Pacing ==
    (pc = "upload" /\ upload_results # <<>>) =>
        /\ (Called(Publishes) /\ pageIdx - 1 < Len(pages)) =>
              pageCalls[Len(pageCalls)] = PageCall("sleep", TRUE, UPLOAD_DELAY)
        /\ pageIdx - 1 = Len(pages) => ~Called({"sleep"})

\* The time.sleep calls of the while loop, and its other statements.
SleepPcs == {"sleep_empty", "sleep_poll", "sleep_cooldown"}
LoopPcs == {"discover", "next_link"} \cup WorkPcs

\* C23: every pass of the while loop, however it ends (the cycle completed,
\* the scrape returned nothing, a statement raised), ends with exactly one
\* sleep, and get_video_links is not called twice without a sleep between.
C23_NoBackToBackCycles ==
    /\ scrapes <= 1
    /\ naps <= 1
    /\ pc \in SleepPcs => naps = 1 /\ sleeping > 0
    /\ pc \in LoopPcs => naps = 0 /\ sleeping = 0
    /\ pc = "discover" => scrapes = 0

C23_Witness ==
    /\ pc = "next_link"
    /\ scrapes = 1
    /\ taken = {}
    /\ items > 0
    /\ faults = 0
====
